---- MODULE Spec2Model ----
(***************************************************************************)
(* Model of the plugin lifecycle engine of rust-plugin-system:             *)
(*   plugin-interface/src/handle.rs   LoadedLib, PluginHandle, GreeterProxy *)
(*   plugin-interface/src/manager.rs  PluginManager                         *)
(*   plugin-annotations/src/lib.rs    generated register/unregister symbols *)
(*                                                                         *)
(* An Arc<LoadedLib> is modelled by the number of strong references the    *)
(* caller holds to it (handles and proxies); the manager holds only Weak   *)
(* references (instance ids in libs).  Every teardown step the code takes  *)
(* is appended to the instance's log, in the order the code takes it.      *)
(***************************************************************************)
EXTENDS Integers, Sequences, FiniteSets, TLC

\* Bounds of the model.
MaxLoads == 2      \* LoadedLib instances ever created
MaxRefs == 2       \* strong references held by callers per LoadedLib
MaxFiles == 2      \* distinct plugin files a run involves

----------------------------------------------------------------------------
\* Files of the plugin directory.  A path is a record of stem and extension.

File(stem, ext) == [stem |-> stem, ext |-> ext]

PluginMulti == File("libplugin_multi", "so")
PluginA == File("libplugin_a", "so")
PluginSingle == File("libplugin_single", "so")
PluginSingleAll == File("libplugin_single_all", "so")
PluginBad == File("libplugin_bad", "so")
PluginEmpty == File("libplugin_empty", "so")
PluginNull == File("libplugin_null", "so")

Paths == {PluginMulti, PluginA, PluginSingle, PluginSingleAll, PluginBad}

\* is_dynamic_library: the extension, compared ignoring ASCII case, is "so".
lower(ext) == IF ext \in {"so", "SO", "So", "sO"} THEN "so" ELSE ext

is_dynamic_library(path) == lower(path.ext) = "so"

\* What the shared library at a path exports.
\*   opens             Library::new succeeds
\*   register_all      plugin_register_all_Greeter_v1 is exported
\*   all_count         number of registrations its array holds (-1: the call
\*                     returns null)
\*   register_single   plugin_register_Greeter_v1 is exported (returns non-null)
\*   unregister_all    plugin_unregister_all_Greeter_v1 is exported
\*   unregister_single plugin_unregister_Greeter_v1 is exported
\*   counter           plugin_unmaker_counter_Greeter_v1 is exported
Exports(o, ra, n, rs, ua, us, c) ==
    [opens |-> o, register_all |-> ra, all_count |-> n, register_single |-> rs,
     unregister_all |-> ua, unregister_single |-> us, counter |-> c]

PluginOf(path) ==
    CASE path = PluginMulti -> Exports(TRUE, TRUE, 2, FALSE, TRUE, FALSE, TRUE)
      [] path = PluginA -> Exports(TRUE, TRUE, 1, FALSE, TRUE, FALSE, TRUE)
      [] path = PluginSingle -> Exports(TRUE, FALSE, 0, TRUE, FALSE, TRUE, TRUE)
      [] path = PluginSingleAll -> Exports(TRUE, FALSE, 0, TRUE, TRUE, TRUE, TRUE)
      [] path = PluginEmpty -> Exports(TRUE, TRUE, 0, TRUE, TRUE, TRUE, TRUE)
      [] path = PluginNull -> Exports(TRUE, TRUE, -1, TRUE, TRUE, TRUE, TRUE)
      [] OTHER -> Exports(FALSE, FALSE, 0, FALSE, FALSE, FALSE, FALSE)

----------------------------------------------------------------------------
VARIABLES
    dir,            \* files present in the plugin directory
    libs,           \* PluginManager.libs: Vec<Weak<LoadedLib>> (instance ids)
    loaded_paths,   \* PluginManager.loaded_paths
    insts,          \* every LoadedLib created so far, by instance id
    counter,        \* UNMAKER_COUNTER of the plugin image mapped from each path
    ret             \* the value returned by the step just taken

\* The directory watchers (watch_and_load_blocking, start_watch_background
\* with process_watch_notifications_blocking).
VARIABLES
    variant,        \* "off", "blocking" or "background": the watcher running
    opts,           \* its WatchOptions
    wpc,            \* position of the watch loop: "start", "top", "recv", "done"
    seen,           \* the loop's seen set
    debounce_map,   \* the loop's debounce_map: ms since the insert, -1 if absent
    waited,         \* the current recv_timeout has waited its 100 ms
    raw_rx,         \* file system events not yet received by the loop
    rx,             \* WatchNotifications sent and not yet received
    stop_rx,        \* values sent on the stop channel and not yet received
    ppc,            \* position of process_watch_notifications_blocking
    cb,             \* the argument of the latest callback invocation
    hist            \* history of the run, for the properties only

wvars == <<variant, opts, wpc, seen, debounce_map, waited, raw_rx, rx, stop_rx,
           ppc, cb, hist>>

vars == <<dir, libs, loaded_paths, insts, counter, ret, wvars>>

----------------------------------------------------------------------------
\* Option<u64> and the results of the calls.

None == [some |-> FALSE, val |-> 0]
Some(n) == [some |-> TRUE, val |-> n]

\* Result of a call: op names the call, target its argument (a path for the
\* manager's calls, an instance id for a handle's), tag the variant returned,
\* val the counter of Ok(Some(val)), handles the Vec<PluginHandle> returned.
Result(op, target, tag, val, handles) ==
    [op |-> op, target |-> target, tag |-> tag, val |-> val, handles |-> handles]

\* A step that returns nothing to the caller.
Unit == Result("none", 0, "()", 0, <<>>)

OkOption(op, target, o) ==
    Result(op, target, IF o.some THEN "Ok(Some)" ELSE "Ok(None)", o.val, <<>>)

\* PluginHandle::new: a handle is the LoadedLib it shares and its index.
PluginHandle(inner, index) == [inner |-> inner, index |-> index]

----------------------------------------------------------------------------
\* Teardown.  Every step is an event of the LoadedLib's log: ev is the step,
\* idx the index of the registration it releases, fac the index of the
\* factory whose unmaker is called (-1: the single-registration symbol).

Ev(ev, idx, fac) == [ev |-> ev, idx |-> idx, fac |-> fac]

Unmakers(log) == SelectSeq(log, LAMBDA e : e.ev = "unmaker")

\* plugin_unregister_all_<T>_v1 stopping after the first registration.
unregister_all_first_only(count) ==
    <<Ev("unmaker", 0, 0), Ev("plugin_free_regs", 0, 0), Ev("plugin_free_arr", 0, 0)>>

\* plugin_unregister_all_<T>_v1 as #[plugin_aggregates] generates it: takes the
\* array box, calls for every registration the unmaker of the first factory
\* of the trait, drops the pointer slice, then the array box.
unregister_all(count) ==
    [i \in 1..count |-> Ev("unmaker", i - 1, 0)]
        \o <<Ev("plugin_free_regs", 0, 0), Ev("plugin_free_arr", 0, 0)>>

\* The host's fallback branch calling no unregister symbol at all.
unregister_each_single_skipped(count) == <<>>

\* The host's loop over regs_slice calling plugin_unregister_<T>_v1 (fac -1).
unregister_each_single(count) == [i \in 1..count |-> Ev("unmaker", i - 1, -1)]

\* The host's loop calling factories[i].unmaker on registrations[i].
unregister_each_factory(count) == [i \in 1..count |-> Ev("unmaker", i - 1, i - 1)]

\* The counter getter, looked up and called after the unregister calls.
read_counter(pl, ctr) == IF pl.counter THEN Some(ctr) ELSE None

counter_event(pl) == IF pl.counter THEN <<Ev("counter", 0, 0)>> ELSE <<>>

\* perform_unload_mut reading the counter getter before the unregister calls.
perform_unload_stale_counter(l, pl, ctr) ==
    IF l.count = 0
    THEN [log |-> <<>>, counter |-> ctr, res |-> None]
    ELSE LET unreg == IF pl.unregister_all THEN unregister_all(l.count)
                      ELSE IF l.factories THEN unregister_each_factory(l.count)
                      ELSE IF pl.unregister_single
                           THEN unregister_each_single(l.count)
                           ELSE <<>>
         IN  [log |-> counter_event(pl) \o unreg,
              counter |-> ctr + Len(Unmakers(unreg)),
              res |-> read_counter(pl, ctr)]

\* perform_unload_mut on LoadedLib l of plugin pl whose image counter is ctr:
\* the events it performs, the image counter afterwards, and its result.
perform_unload_mut(l, pl, ctr) ==
    IF l.count = 0
    THEN [log |-> <<>>, counter |-> ctr, res |-> None]
    ELSE LET unreg ==
                 IF ~l.factories
                 THEN IF pl.unregister_all THEN unregister_all(l.count)
                      ELSE IF pl.unregister_single
                           THEN unregister_each_single(l.count)
                           ELSE <<>>
                 ELSE IF pl.unregister_all THEN unregister_all(l.count)
                      ELSE unregister_each_factory(l.count)
             after == ctr + Len(Unmakers(unreg))
             frees == IF ~l.factories
                      THEN <<Ev("host_free_regs", 0, 0), Ev("host_free_arr", 0, 0)>>
                      ELSE <<>>
         IN  [log |-> unreg \o counter_event(pl) \o frees,
              counter |-> after,
              res |-> read_counter(pl, after)]

\* A state threaded through the steps of one call.
St(i, c) == [insts |-> i, counter |-> c]

strong_count(l) == l.handles + l.proxies

\* Dropping the Library field: the OS handle is released; the image is
\* unmapped (and its statics are gone) when no other Library holds it open.
release_library(st, id) ==
    LET l == st.insts[id]
        others == \E j \in DOMAIN st.insts :
                      j # id /\ st.insts[j].path = l.path /\ st.insts[j].lib_open
    IN  St([st.insts EXCEPT ![id].lib_open = FALSE,
                            ![id].log = @ \o <<Ev("release", 0, 0)>>],
           [st.counter EXCEPT ![l.path] = IF others THEN @ ELSE 0])

\* perform_unload_mut applied to instance id, followed by closed.store(true).
run_unload(st, id) ==
    LET l == st.insts[id]
        r == perform_unload_mut(l, PluginOf(l.path), st.counter[l.path])
    IN  [st |-> St([st.insts EXCEPT ![id].log = @ \o r.log,
                                    ![id].closed = TRUE],
                   [st.counter EXCEPT ![l.path] = r.counter]),
         res |-> r.res]

\* impl Drop for LoadedLib, then the drop of its fields.
drop_loaded_lib(st, id) ==
    IF ~st.insts[id].closed
    THEN release_library(run_unload(st, id).st, id)
    ELSE release_library(st, id)

\* unload_loaded_lib dropping the Library before it runs the unregister calls.
unload_release_first(st, id) ==
    LET u == run_unload(release_library(st, id), id)
    IN  [st |-> u.st, res |-> u.res]

\* unload_loaded_lib(loaded): perform_unload_mut, closed.store(true), and the
\* drop of `loaded` when the function returns.
unload_loaded_lib(st, id) ==
    LET u == run_unload(st, id)
    IN  [st |-> drop_loaded_lib(u.st, id), res |-> u.res]

\* Drop of one strong reference (a handle when kind = "handles", a proxy when
\* kind = "proxies"); the last one drops the LoadedLib.
drop_strong(st, id, kind) ==
    LET l == st.insts[id]
        st1 == St([st.insts EXCEPT ![id][kind] = @ - 1], st.counter)
    IN  IF strong_count(l) = 1 THEN drop_loaded_lib(st1, id) ELSE st1

----------------------------------------------------------------------------
\* LoadedLib::new_with_lib / new_host_owned, with the handles load_plugins
\* makes for it.  deferred records which calls set the closed latch and left
\* the teardown to the last owner.
LoadedLib(path, count, host_owned, factories) ==
    [path |-> path, count |-> count, host_owned |-> host_owned,
     factories |-> factories, closed |-> FALSE, deferred |-> {},
     handles |-> count, proxies |-> 0, lib_open |-> TRUE, log |-> <<>>]

\* The orders in which read_dir may list a set of files.
Listings(files) ==
    {s \in [1..Cardinality(files) -> files] :
        \A i, j \in DOMAIN s : i # j => s[i] # s[j]}

\* Drop of a Vec<PluginHandle>, element by element.
RECURSIVE drop_handles(_, _)
drop_handles(st, handles) ==
    IF handles = <<>> THEN st
    ELSE drop_handles(drop_strong(st, Head(handles).inner, "handles"),
                      Tail(handles))

\* The state of one load_plugins call.
LoadSt(st, l, p, h, e) ==
    [st |-> st, libs |-> l, loaded_paths |-> p, handles |-> h, err |-> e]

\* load_entry without the loaded_paths check.
load_entry_no_dedup(ls, path) ==
    LET pl == PluginOf(path)
        id == Len(ls.st.insts) + 1
        l == IF pl.register_all THEN LoadedLib(path, pl.all_count, FALSE, TRUE)
             ELSE LoadedLib(path, 1, TRUE, FALSE)
    IN  IF ~is_dynamic_library(path) THEN ls
        ELSE IF ~pl.opens THEN [ls EXCEPT !.err = "Lib"]
        ELSE IF (pl.register_all /\ pl.all_count > 0) \/
                (~pl.register_all /\ pl.register_single)
             THEN LoadSt(St(Append(ls.st.insts, l), ls.st.counter),
                         Append(ls.libs, id),
                         ls.loaded_paths \cup {path},
                         ls.handles \o [i \in 1..l.count |-> PluginHandle(id, i - 1)],
                         ls.err)
        ELSE ls

\* load_entry making only the handle of index 0 for a library.
load_entry_first_handle(ls, path) ==
    LET pl == PluginOf(path)
        id == Len(ls.st.insts) + 1
        l == IF pl.register_all THEN LoadedLib(path, pl.all_count, FALSE, TRUE)
             ELSE LoadedLib(path, 1, TRUE, FALSE)
    IN  IF ~is_dynamic_library(path) \/ path \in ls.loaded_paths THEN ls
        ELSE IF ~pl.opens THEN [ls EXCEPT !.err = "Lib"]
        ELSE IF (pl.register_all /\ pl.all_count > 0) \/
                (~pl.register_all /\ pl.register_single)
             THEN LoadSt(St(Append(ls.st.insts, [l EXCEPT !.handles = 1]),
                            ls.st.counter),
                         Append(ls.libs, id),
                         ls.loaded_paths \cup {path},
                         Append(ls.handles, PluginHandle(id, 0)),
                         ls.err)
        ELSE ls

\* One directory entry of the loop of load_plugins.
load_entry(ls, path) ==
    LET pl == PluginOf(path)
        id == Len(ls.st.insts) + 1
        created(l) == St(Append(ls.st.insts, l), ls.st.counter)
        \* `loaded` goes out of scope at the end of the iteration: with no
        \* handle made, it is the last owner.
        added(l) ==
            LoadSt(IF l.count = 0 THEN drop_loaded_lib(created(l), id)
                   ELSE created(l),
                   Append(ls.libs, id),
                   ls.loaded_paths \cup {path},
                   ls.handles \o [i \in 1..l.count |-> PluginHandle(id, i - 1)],
                   ls.err)
    IN  IF ~is_dynamic_library(path) THEN ls
        ELSE IF path \in ls.loaded_paths THEN ls
        ELSE IF ~pl.opens THEN [ls EXCEPT !.err = "Lib"]
        ELSE IF pl.register_all
             THEN IF pl.all_count < 0 THEN ls
                  ELSE added(LoadedLib(path, pl.all_count, FALSE, TRUE))
        ELSE IF pl.register_single
             THEN added(LoadedLib(path, 1, TRUE, FALSE))
        ELSE ls

\* The loop of load_plugins over a listing; `?` leaves it at the first error.
RECURSIVE load_loop(_, _)
load_loop(ls, entries) ==
    IF entries = <<>> \/ ls.err # "" THEN ls
    ELSE load_loop(load_entry(ls, Head(entries)), Tail(entries))

\* PluginManager::load_plugins over the listing `entries` of the directory.
load_plugins(entries) ==
    LET ls == load_loop(LoadSt(St(insts, counter), libs, loaded_paths, <<>>, ""),
                        entries)
    IN  IF ls.err # ""
        THEN [ls EXCEPT !.st = drop_handles(ls.st, ls.handles), !.handles = <<>>]
        ELSE IF ls.handles = <<>> THEN [ls EXCEPT !.err = "NoRegistrations"]
        ELSE ls

LoadPlugins ==
    \E readable \in BOOLEAN :
      IF ~readable
      THEN /\ ret' = Result("load_plugins", 0, "Io", 0, <<>>)
           /\ UNCHANGED <<dir, libs, loaded_paths, insts, counter>>
      ELSE \E entries \in Listings(dir) :
             LET ls == load_plugins(entries)
             IN  /\ Len(ls.st.insts) <= MaxLoads
                 /\ insts' = ls.st.insts
                 /\ counter' = ls.st.counter
                 /\ libs' = ls.libs
                 /\ loaded_paths' = ls.loaded_paths
                 /\ ret' = Result("load_plugins", 0,
                                  IF ls.err = "" THEN "Ok" ELSE ls.err,
                                  0, ls.handles)
                 /\ UNCHANGED dir

----------------------------------------------------------------------------
\* PluginManager::unload_by_path.

UnloadSt(st, l, p, r) == [st |-> st, libs |-> l, loaded_paths |-> p, res |-> r]

RemoveAt(s, i) == SubSeq(s, 1, i - 1) \o SubSeq(s, i + 1, Len(s))

\* The while loop from position i.  upgrade() succeeds while a caller holds a
\* strong reference; the upgraded Arc `strong` is one more reference.
RECURSIVE unload_scan(_, _, _)
unload_scan(us, i, path) ==
    IF i > Len(us.libs) THEN us
    ELSE
      LET id == us.libs[i]
          l == us.st.insts[id]
      IN  IF strong_count(l) > 0
          THEN IF l.path = path
               THEN IF strong_count(l) + 1 = 1
                    THEN LET u == unload_loaded_lib(us.st, id)
                         IN  UnloadSt(u.st, RemoveAt(us.libs, i),
                                      us.loaded_paths \ {path}, u.res)
                    ELSE UnloadSt(
                           St([us.st.insts EXCEPT
                                 ![id].closed = TRUE,
                                 ![id].deferred = @ \cup {"unload_by_path"}],
                              us.st.counter),
                           us.libs, us.loaded_paths \ {path}, None)
               ELSE unload_scan(us, i + 1, path)
          ELSE unload_scan([us EXCEPT !.libs = RemoveAt(us.libs, i)], i, path)

unload_by_path(path) ==
    unload_scan(UnloadSt(St(insts, counter), libs, loaded_paths, None), 1, path)

UnloadByPath(path) ==
    LET us == unload_by_path(path)
    IN  /\ insts' = us.st.insts
        /\ counter' = us.st.counter
        /\ libs' = us.libs
        /\ loaded_paths' = us.loaded_paths
        /\ ret' = OkOption("unload_by_path", path, us.res)
        /\ UNCHANGED dir

----------------------------------------------------------------------------
\* PluginHandle and GreeterProxy.  id names the LoadedLib the handle shares.

\* close without the early return on an already set latch.
close_ignoring_latch(st, id) ==
    LET l == st.insts[id]
        taken == St([st.insts EXCEPT ![id].closed = TRUE, ![id].handles = @ - 1],
                    st.counter)
    IN  IF strong_count(l) = 1
        THEN unload_loaded_lib(taken, id)
        ELSE [st |-> taken, res |-> None]

\* close running the teardown although other owners remain.
close_eager(st, id) ==
    LET l == st.insts[id]
        taken == St([st.insts EXCEPT ![id].closed = TRUE, ![id].handles = @ - 1],
                    st.counter)
    IN  IF l.closed
        THEN [st |-> drop_strong(St([st.insts EXCEPT ![id].closed = TRUE],
                                    st.counter), id, "handles"),
              res |-> None]
        ELSE unload_loaded_lib(taken, id)

\* PluginHandle::close(self) on a handle of instance id.
close(st, id) ==
    LET l == st.insts[id]
        was_closed == l.closed
        swapped == St([st.insts EXCEPT ![id].closed = TRUE], st.counter)
        taken == St([swapped.insts EXCEPT ![id].handles = @ - 1], swapped.counter)
    IN  IF was_closed
        THEN [st |-> drop_strong(swapped, id, "handles"), res |-> None]
        ELSE IF strong_count(l) = 1
             THEN unload_loaded_lib(taken, id)
             ELSE [st |-> St([taken.insts EXCEPT ![id].deferred = @ \cup {"close"}],
                             taken.counter),
                   res |-> None]

Close(id) ==
    /\ insts[id].handles > 0
    /\ LET c == close(St(insts, counter), id)
       IN  /\ insts' = c.st.insts
           /\ counter' = c.st.counter
           /\ ret' = OkOption("close", id, c.res)
    /\ UNCHANGED <<dir, libs, loaded_paths>>

\* #[derive(Clone)] on PluginHandle.
CloneHandle(id) ==
    /\ insts[id].handles > 0
    /\ strong_count(insts[id]) < MaxRefs
    /\ insts' = [insts EXCEPT ![id].handles = @ + 1]
    /\ ret' = Unit
    /\ UNCHANGED <<dir, libs, loaded_paths, counter>>

\* A handle goes out of scope.
DropHandle(id) ==
    /\ insts[id].handles > 0
    /\ LET st == drop_strong(St(insts, counter), id, "handles")
       IN  insts' = st.insts /\ counter' = st.counter
    /\ ret' = Unit
    /\ UNCHANGED <<dir, libs, loaded_paths>>

\* PluginHandle::as_greeter: the proxy clones the Arc (the trait is Greeter).
AsGreeter(id) ==
    /\ insts[id].handles > 0
    /\ strong_count(insts[id]) < MaxRefs
    /\ insts' = [insts EXCEPT ![id].proxies = @ + 1]
    /\ ret' = Result("as_greeter", id, "Some", 0, <<>>)
    /\ UNCHANGED <<dir, libs, loaded_paths, counter>>

\* A proxy goes out of scope.
DropProxy(id) ==
    /\ insts[id].proxies > 0
    /\ LET st == drop_strong(St(insts, counter), id, "proxies")
       IN  insts' = st.insts /\ counter' = st.counter
    /\ ret' = Unit
    /\ UNCHANGED <<dir, libs, loaded_paths>>

\* GreeterProxy::greet / name: dereferences the array, the registration and
\* its vtable, and calls into the library's code.
greet(l) ==
    IF l.lib_open /\ Unmakers(l.log) = <<>> THEN "Ok" ELSE "UseAfterFree"

\* The vtable wrappers #[plugin_impl] generates run the method under
\* catch_unwind: a void method returns normally whether or not it panicked,
\* a text-returning one returns a C string, or null when it panicked.
greet_wrapper(panics) == "returned"

name_wrapper(panics) == IF panics THEN "null" ELSE "cstr"

\* What CStr::from_ptr can do with the pointer name_wrapper returned: it is
\* given to strlen unchecked, so a null pointer is read through.
from_ptr(c) == IF c = "null" THEN {"Segfault", "Garbage"} ELSE {"Ok(text)"}

\* GreeterProxy::name on a proxy of LoadedLib l: the possible outcomes.
name(l, panics) ==
    IF l.lib_open /\ Unmakers(l.log) = <<>>
    THEN from_ptr(name_wrapper(panics))
    ELSE {"UseAfterFree"}

Greet(id) ==
    /\ insts[id].proxies > 0
    /\ \E panics \in BOOLEAN :
          ret' = Result("greet", id,
                        IF greet_wrapper(panics) = "returned"
                        THEN greet(insts[id]) ELSE "Unwind",
                        0, <<>>)
    /\ UNCHANGED <<dir, libs, loaded_paths, insts, counter>>

Name(id) ==
    /\ insts[id].proxies > 0
    /\ \E panics \in BOOLEAN :
          \E out \in name(insts[id], panics) :
             ret' = Result("name", id, out, 0, <<>>)
    /\ UNCHANGED <<dir, libs, loaded_paths, insts, counter>>

----------------------------------------------------------------------------
\* The file system: plugin files appear in and disappear from the directory.

\* The files a run has involved so far.
Involved == dir \cup loaded_paths \cup {insts[id].path : id \in DOMAIN insts}

CreateFile(path) ==
    /\ path \notin dir
    /\ Cardinality(Involved \cup {path}) <= MaxFiles
    /\ dir' = dir \cup {path}
    /\ ret' = Unit
    /\ UNCHANGED <<libs, loaded_paths, insts, counter>>

RemoveFile(path) ==
    /\ path \in dir
    /\ dir' = dir \ {path}
    /\ ret' = Unit
    /\ UNCHANGED <<libs, loaded_paths, insts, counter>>

----------------------------------------------------------------------------
\* WatchOptions as the code receives them; debounce_ms is debounce_ms below.
WatchOptions(auto_load, auto_unload, emit_proxies) ==
    [auto_load |-> auto_load, auto_unload |-> auto_unload,
     emit_proxies |-> emit_proxies]

\* No callback invocation yet.
NoCallback == [kind |-> "none", items |-> <<>>, paths |-> {}, counter |-> None]

NoHistory ==
    [appeared |-> <<>>, removals |-> <<>>, delivered |-> {}, copied |-> {},
     flashed |-> {}, removed |-> <<>>, existing |-> {}, touched |-> {},
     unreported |-> {}, dropped |-> {}, io |-> FALSE, ops |-> 0]

\* No watcher is running.
WatchOff ==
    /\ variant = "off"
    /\ opts = WatchOptions(TRUE, FALSE, FALSE)
    /\ wpc = "done"
    /\ seen = {}
    /\ debounce_map = <<>>
    /\ waited = FALSE
    /\ raw_rx = <<>>
    /\ rx = <<>>
    /\ stop_rx = 0
    /\ ppc = "done"
    /\ cb = NoCallback
    /\ hist = NoHistory

\* PluginManager::new, over any initial content of the directory.
Init ==
    /\ dir \in {d \in SUBSET Paths : Cardinality(d) <= MaxFiles}
    /\ libs = <<>>
    /\ loaded_paths = {}
    /\ insts = <<>>
    /\ counter = [p \in Paths |-> 0]
    /\ ret = Unit
    /\ WatchOff

Next ==
    \/ LoadPlugins /\ UNCHANGED wvars
    \/ \E path \in Paths : UnloadByPath(path) /\ UNCHANGED wvars
    \/ \E id \in DOMAIN insts : Close(id) /\ UNCHANGED wvars
    \/ \E id \in DOMAIN insts : CloneHandle(id) /\ UNCHANGED wvars
    \/ \E id \in DOMAIN insts : DropHandle(id) /\ UNCHANGED wvars
    \/ \E id \in DOMAIN insts : AsGreeter(id) /\ UNCHANGED wvars
    \/ \E id \in DOMAIN insts : DropProxy(id) /\ UNCHANGED wvars
    \/ \E id \in DOMAIN insts : Greet(id) /\ UNCHANGED wvars
    \/ \E id \in DOMAIN insts : Name(id) /\ UNCHANGED wvars
    \/ \E path \in Paths : CreateFile(path) /\ UNCHANGED wvars
    \/ \E path \in Paths : RemoveFile(path) /\ UNCHANGED wvars

Spec == Init /\ [][Next]_vars

----------------------------------------------------------------------------
\* Observations the properties below are stated with.

Ids == DOMAIN insts

\* Number of unmaker calls made for registration idx of LoadedLib l.
unmaker_calls(l, idx) ==
    Len(SelectSeq(l.log, LAMBDA e : e.ev = "unmaker" /\ e.idx = idx))

\* Every registration of l has had its unmaker invoked exactly once.
TornDown(l) == \A idx \in 0..(l.count - 1) : unmaker_calls(l, idx) = 1

\* The Library of l has been dropped (the OS handle released).
Released(l) == ~l.lib_open

Positions(log, ev) == {i \in DOMAIN log : log[i].ev = ev}

----------------------------------------------------------------------------
\* C1: whenever the OS handle of a loaded library has been released, each of
\* its registrations' unmakers has been invoked exactly once.
C1_ReleasedImpliesEachUnmakerOnce ==
    \A id \in Ids : Released(insts[id]) => TornDown(insts[id])

\* C2: a close() that leaves other strong references behind marks the library
\* closed and returns Ok(None), and once the last of those references is
\* dropped the unmaker of every registration has been invoked.
C2_DeferredCloseTearsDownAtLastDrop ==
    /\ (ret.op = "close" /\ strong_count(insts[ret.target]) > 0)
          => (ret.tag = "Ok(None)" /\ insts[ret.target].closed)
    /\ \A id \in Ids :
          ("close" \in insts[id].deferred /\ Released(insts[id]))
              => TornDown(insts[id])

\* C3 as claimed: close() on the only remaining handle returns Ok(Some(n)),
\* n > 0, when the plugin exports the counter, whatever happened before.
C3_LastHandleCloseAlwaysReturnsCounter ==
    (/\ ret.op = "close"
     /\ insts[ret.target].handles = 0
     /\ PluginOf(insts[ret.target].path).counter)
        => (ret.tag = "Ok(Some)" /\ ret.val > 0)

\* C3 as amended: close() on the only remaining handle, with no proxy alive
\* and the closed latch not yet set, runs the teardown and returns
\* Ok(Some(n)), n > 0, when the plugin exports the counter.
C3_SoleOwnerCloseReturnsCounter ==
    [][\A id \in Ids :
         (/\ Close(id)
          /\ insts[id].handles = 1
          /\ insts[id].proxies = 0
          /\ ~insts[id].closed
          /\ PluginOf(insts[id].path).counter)
            => (/\ ret'.tag = "Ok(Some)"
                /\ ret'.val > 0
                /\ TornDown(insts'[id]))]_vars

C3_Witness ==
    /\ ret.op = "close"
    /\ ret.tag = "Ok(Some)"
    /\ ret.val > 0
    /\ insts[ret.target].deferred = {}
    /\ TornDown(insts[ret.target])

C5_UnloadWithoutOwnersReturnsCounter ==
    [][\A path \in Paths :
         (/\ UnloadByPath(path)
          /\ path \in loaded_paths
          /\ \E id \in Ids : insts[id].path = path
          /\ \A id \in Ids : insts[id].path = path => strong_count(insts[id]) = 0)
            => (/\ ret'.tag = "Ok(Some)"
                /\ path \notin loaded_paths'
                /\ \A i \in DOMAIN libs' : insts[libs'[i]].path # path)]_vars

\* C6: unload_by_path(p) while the library of p is still referenced returns
\* Ok(None), sets the latch, removes p from loaded_paths and invokes no
\* unmaker; once the last owner is dropped every unmaker has been invoked.
C6_DeferredUnloadTearsDownAtLastDrop ==
    /\ (/\ ret.op = "unload_by_path"
        /\ \E id \in Ids : insts[id].path = ret.target /\ strong_count(insts[id]) > 0)
          => (/\ ret.tag = "Ok(None)"
              /\ ret.target \notin loaded_paths
              /\ \E id \in Ids :
                    /\ insts[id].path = ret.target
                    /\ strong_count(insts[id]) > 0
                    /\ insts[id].closed
                    /\ Unmakers(insts[id].log) = <<>>)
    /\ \A id \in Ids :
          ("unload_by_path" \in insts[id].deferred /\ Released(insts[id]))
              => TornDown(insts[id])

\* C7: a LoadedLib referenced by a handle or proxy has its library open and
\* no registration released; close() returns Ok(Some) only when no handle
\* or proxy of it is left; a proxy call never reaches released registrations.
C7_ReferencedLibStaysLoaded ==
    /\ \A id \in Ids :
          strong_count(insts[id]) > 0
              => (insts[id].lib_open /\ insts[id].log = <<>>)
    /\ (ret.op = "close" /\ ret.tag = "Ok(Some)")
          => strong_count(insts[ret.target]) = 0
    /\ ret.op = "greet" => ret.tag = "Ok"

\* A proxy call on a library whose latch a sibling's close() or
\* unload_by_path has set.
C7_Witness ==
    /\ ret.op = "greet"
    /\ insts[ret.target].deferred # {}
    /\ insts[ret.target].closed

\* C8: a load_plugins call returns handles only for files not in loaded_paths
\* before it, and a call that directly follows another one (no file has
\* appeared) returns Err(NoRegistrations) and creates no LoadedLib.
C8_SecondLoadOnlyNewLibraries ==
    [][(LoadPlugins /\ ret'.tag # "Io")
         => (/\ \A i \in DOMAIN ret'.handles :
                   insts'[ret'.handles[i].inner].path \notin loaded_paths
             /\ (ret.op = "load_plugins" /\ ret.tag # "Io")
                   => (ret'.tag = "NoRegistrations" /\ Len(insts') = Len(insts)))]_vars

\* C9 as claimed: no two LoadedLibs with their library open share a path.
C9_OneLiveLibPerPath ==
    \A i, j \in Ids :
        (i # j /\ insts[i].lib_open /\ insts[j].lib_open)
            => insts[i].path # insts[j].path

\* C9 as amended: two LoadedLibs with their library open share a path only
\* if unload_by_path was called for that path while a library loaded from
\* it was still referenced.
C9_OneLiveLibPerPathUnlessUnloaded ==
    \A i, j \in Ids :
        (i # j /\ insts[i].lib_open /\ insts[j].lib_open
             /\ insts[i].path = insts[j].path)
            => \E k \in Ids : /\ insts[k].path = insts[i].path
                              /\ "unload_by_path" \in insts[k].deferred

\* A load_plugins call that skipped a file whose library is loaded and alive.
C9_Witness ==
    /\ ret.op = "load_plugins"
    /\ ret.tag # "Io"
    /\ \E id \in Ids :
          /\ insts[id].lib_open
          /\ insts[id].path \in dir
          /\ insts[id].deferred = {}
          /\ \A i \in DOMAIN ret.handles : ret.handles[i].inner # id

\* C10: in the teardown of every LoadedLib the unmaker calls precede the
\* counter read, the counter read precedes the release of the library, no
\* unmaker follows the release, and a call that returns Ok(Some) has
\* released the library.
C10_TeardownOrder ==
    /\ \A id \in Ids :
          LET log == insts[id].log
          IN  /\ \A u \in Positions(log, "unmaker"), r \in Positions(log, "release") :
                    u < r
              /\ \A u \in Positions(log, "unmaker"), c \in Positions(log, "counter") :
                    u < c
              /\ \A c \in Positions(log, "counter"), r \in Positions(log, "release") :
                    c < r
    /\ (ret.op = "close" /\ ret.tag = "Ok(Some)") => Released(insts[ret.target])
    /\ (ret.op = "unload_by_path" /\ ret.tag = "Ok(Some)")
          => \E id \in Ids : insts[id].path = ret.target /\ Released(insts[id])

C10_Witness ==
    /\ ret.op = "close"
    /\ ret.tag = "Ok(Some)"
    /\ LET log == insts[ret.target].log
       IN  /\ Positions(log, "unmaker") # {}
           /\ Positions(log, "counter") # {}
           /\ Positions(log, "release") # {}

----------------------------------------------------------------------------
\* The plugin at a path gives load_plugins at least one registration.
yields_registrations(path) ==
    LET pl == PluginOf(path)
    IN  /\ is_dynamic_library(path)
        /\ pl.opens
        /\ \/ pl.register_all /\ pl.all_count > 0
           \/ ~pl.register_all /\ pl.register_single

\* C11: a load_plugins call whose directory listing succeeds never returns a
\* library error: a file that fails to open is skipped, and every library of
\* the directory that loads and was not loaded before has its handles in
\* the result.
C11_UnopenableFileIsSkipped ==
    [][(LoadPlugins /\ ret'.tag # "Io")
         => (/\ ret'.tag # "Lib"
             /\ \A path \in dir :
                   (yields_registrations(path) /\ path \notin loaded_paths)
                      => \E i \in DOMAIN ret'.handles :
                            insts'[ret'.handles[i].inner].path = path)]_vars

\* Number of events of the kinds evs in the log of l.
count_events(l, evs) == Len(SelectSeq(l.log, LAMBDA e : e.ev \in evs))

\* C12: once a library is released, an array the host synthesized and its
\* pointer array have each been freed exactly once, and the host has freed
\* nothing of an array the plugin allocated.
C12_ArraysFreedByTheirOwnerOnce ==
    \A id \in Ids :
        Released(insts[id])
            => IF insts[id].host_owned
               THEN /\ count_events(insts[id], {"host_free_arr", "plugin_free_arr"}) = 1
                    /\ count_events(insts[id], {"host_free_regs", "plugin_free_regs"}) = 1
               ELSE count_events(insts[id], {"host_free_arr", "host_free_regs"}) = 0

\* C13: in the teardown of an array that plugin_register_all made,
\* plugin_unregister_all releases registrations[i] with the unmaker of
\* factories[i], the factory whose maker produced it.
C13_UnregisterAllPairsUnmakers ==
    \A id \in Ids :
        (insts[id].factories /\ PluginOf(insts[id].path).unregister_all)
            => \A k \in DOMAIN insts[id].log :
                   insts[id].log[k].ev = "unmaker"
                       => insts[id].log[k].fac = insts[id].log[k].idx

C15_PanicDoesNotReachHost ==
    /\ ret.op = "name" => ret.tag \in {"Ok(text)", "Ok(empty)", "Err"}
    /\ ret.op = "greet" => ret.tag = "Ok"

----------------------------------------------------------------------------
\* The same calls made on two plugins side by side: PluginA (aggregated
\* symbols, one registration) and PluginSingle (single-registration symbols).
\* Every step makes one call on the k-th library loaded from PluginA and the
\* same call on the k-th library loaded from PluginSingle.

MaxTwinLoads == 4     \* LoadedLib instances ever created, both plugins together

ids_of(path) == {i \in DOMAIN insts : insts[i].path = path}

\* The k-th LoadedLib loaded from path.
inst_of(path, k) ==
    CHOOSE i \in ids_of(path) : Cardinality({j \in ids_of(path) : j <= i}) = k

Generations == 1..Cardinality(ids_of(PluginA))

BothHave(k, field) ==
    /\ k <= Cardinality(ids_of(PluginSingle))
    /\ insts[inst_of(PluginA, k)][field] > 0
    /\ insts[inst_of(PluginSingle, k)][field] > 0

TwinInit ==
    /\ dir = {PluginA, PluginSingle}
    /\ libs = <<>>
    /\ loaded_paths = {}
    /\ insts = <<>>
    /\ counter = [p \in Paths |-> 0]
    /\ ret = Unit
    /\ WatchOff

TwinLoad ==
    \E entries \in Listings(dir) :
      LET ls == load_plugins(entries)
      IN  /\ Len(ls.st.insts) <= MaxTwinLoads
          /\ insts' = ls.st.insts
          /\ counter' = ls.st.counter
          /\ libs' = ls.libs
          /\ loaded_paths' = ls.loaded_paths
          /\ ret' = Result("load_plugins", 0,
                           IF ls.err = "" THEN "Ok" ELSE ls.err, 0, ls.handles)
          /\ UNCHANGED dir

\* unload_by_path(PluginA), then unload_by_path(PluginSingle).
twin_unload ==
    LET a == unload_scan(UnloadSt(St(insts, counter), libs, loaded_paths, None),
                         1, PluginA)
        s == unload_scan(UnloadSt(a.st, a.libs, a.loaded_paths, None),
                         1, PluginSingle)
    IN  [a |-> a, s |-> s]

TwinUnload ==
    LET u == twin_unload
    IN  /\ insts' = u.s.st.insts
        /\ counter' = u.s.st.counter
        /\ libs' = u.s.libs
        /\ loaded_paths' = u.s.loaded_paths
        /\ ret' = OkOption("unload_by_path", PluginA, u.a.res)
        /\ UNCHANGED dir

\* close() on a handle of the k-th library of each plugin.
twin_close(k) ==
    LET a == close(St(insts, counter), inst_of(PluginA, k))
        s == close(a.st, inst_of(PluginSingle, k))
    IN  [a |-> a, s |-> s]

TwinClose(k) ==
    /\ BothHave(k, "handles")
    /\ LET c == twin_close(k)
       IN  /\ insts' = c.s.st.insts
           /\ counter' = c.s.st.counter
           /\ ret' = OkOption("close", inst_of(PluginA, k), c.a.res)
    /\ UNCHANGED <<dir, libs, loaded_paths>>

TwinClone(k) ==
    /\ BothHave(k, "handles")
    /\ strong_count(insts[inst_of(PluginA, k)]) < MaxRefs
    /\ strong_count(insts[inst_of(PluginSingle, k)]) < MaxRefs
    /\ insts' = [insts EXCEPT ![inst_of(PluginA, k)].handles = @ + 1,
                              ![inst_of(PluginSingle, k)].handles = @ + 1]
    /\ ret' = Unit
    /\ UNCHANGED <<dir, libs, loaded_paths, counter>>

TwinAsGreeter(k) ==
    /\ BothHave(k, "handles")
    /\ strong_count(insts[inst_of(PluginA, k)]) < MaxRefs
    /\ strong_count(insts[inst_of(PluginSingle, k)]) < MaxRefs
    /\ insts' = [insts EXCEPT ![inst_of(PluginA, k)].proxies = @ + 1,
                              ![inst_of(PluginSingle, k)].proxies = @ + 1]
    /\ ret' = Result("as_greeter", inst_of(PluginA, k), "Some", 0, <<>>)
    /\ UNCHANGED <<dir, libs, loaded_paths, counter>>

\* Drop of one handle (kind = "handles") or proxy of each plugin's library.
TwinDrop(k, kind) ==
    /\ BothHave(k, kind)
    /\ LET a == drop_strong(St(insts, counter), inst_of(PluginA, k), kind)
           s == drop_strong(a, inst_of(PluginSingle, k), kind)
       IN  insts' = s.insts /\ counter' = s.counter
    /\ ret' = Unit
    /\ UNCHANGED <<dir, libs, loaded_paths>>

TwinNext ==
    \/ TwinLoad /\ UNCHANGED wvars
    \/ TwinUnload /\ UNCHANGED wvars
    \/ \E k \in Generations : TwinClose(k) /\ UNCHANGED wvars
    \/ \E k \in Generations : TwinClone(k) /\ UNCHANGED wvars
    \/ \E k \in Generations : TwinAsGreeter(k) /\ UNCHANGED wvars
    \/ \E k \in Generations : TwinDrop(k, "handles") /\ UNCHANGED wvars
    \/ \E k \in Generations : TwinDrop(k, "proxies") /\ UNCHANGED wvars

SpecTwin == TwinInit /\ [][TwinNext]_vars

\* What the caller can observe of the libraries loaded from path.
twin_view(path) ==
    [loaded |-> path \in loaded_paths,
     counter |-> counter[path],
     weak |-> Cardinality({i \in DOMAIN libs : insts[libs[i]].path = path}),
     insts |-> [k \in 1..Cardinality(ids_of(path)) |->
                  LET l == insts[inst_of(path, k)]
                  IN  [count |-> l.count, closed |-> l.closed,
                       handles |-> l.handles, proxies |-> l.proxies,
                       lib_open |-> l.lib_open,
                       released |-> Len(Unmakers(l.log))]]]

\* C16: after any sequence of the same calls on both plugins the caller
\* observes the same of either (handles, latch, counter, releaser calls,
\* library open or released), load_plugins returns one handle for each, and
\* every close() and unload_by_path returns the same for both.
C16_SingleFormEquivalentToAggregated ==
    [][/\ twin_view(PluginA)' = twin_view(PluginSingle)'
       /\ \A k \in Generations :
             TwinClose(k) => twin_close(k).a.res = twin_close(k).s.res
       /\ TwinUnload => twin_unload.a.res = twin_unload.s.res
       /\ (TwinLoad /\ ret'.tag = "Ok")
             => \A path \in {PluginA, PluginSingle} :
                   Cardinality({i \in DOMAIN ret'.handles :
                       insts'[ret'.handles[i].inner].path = path}) = 1]_vars

\* Both libraries were torn down by the close() of their last handle, which
\* returned the counter.
C16_Witness ==
    /\ ret.op = "close"
    /\ ret.tag = "Ok(Some)"
    /\ \A path \in {PluginA, PluginSingle} :
          /\ ids_of(path) # {}
          /\ ~insts[inst_of(path, 1)].lib_open
          /\ Len(Unmakers(insts[inst_of(path, 1)].log)) = 1

----------------------------------------------------------------------------
\* The directory watchers.  One loop serves both variants: in the blocking
\* variant (watch_and_load_blocking) it calls the manager and the callback
\* itself, in the background variant (start_watch_background) it runs on the
\* worker thread and sends WatchNotifications, which
\* process_watch_notifications_blocking receives on the manager's thread.

TickMs == 100          \* recv_timeout(Duration::from_millis(100))
debounce_ms == 200     \* WatchOptions::debounce_ms as the tests set it
MaxFsOps == 2          \* file system operations of a run

Notes == File("notes", "txt")

WatchPaths == {PluginA, PluginMulti, PluginBad, Notes}

\* notify::Event, one path each.
FsEvent(kind, path) == [kind |-> kind, path |-> path]

\* WatchNotification::Paths, ::Unloaded and ::Error.
WatchNotification(kind, paths, ctr) ==
    [kind |-> kind, paths |-> paths, counter |-> ctr]

\* The argument of a callback invocation: WatchEvent::Handles / ::Proxies
\* (inside ManagerNotification::Event in the background variant),
\* ManagerNotification::Unloaded or ::Error.
Callback(kind, items, paths, ctr) ==
    [kind |-> kind, items |-> items, paths |-> paths, counter |-> ctr]

\* The watch loop holds a registered file system watcher.
Watching == wpc \in {"top", "recv"}

\* The position the loop continues at after an iteration: the background
\* worker checks the stop channel first.
loop_head == IF variant = "background" THEN "top" ELSE "recv"

\* A notify event reaches the raw channel while the watcher is registered.
notify(kind, path) ==
    IF Watching THEN Append(raw_rx, FsEvent(kind, path)) ELSE raw_rx

ManagerUnchanged == UNCHANGED <<libs, loaded_paths, insts, counter, ret>>

LoopUnchanged ==
    UNCHANGED <<variant, opts, wpc, seen, debounce_map, waited, rx, stop_rx,
                ppc, cb>>

\* A file is copied into the directory.
FsCreate(path) ==
    /\ variant # "off"
    /\ hist.ops < MaxFsOps
    /\ path \notin dir
    /\ dir' = dir \cup {path}
    /\ raw_rx' = notify("Create", path)
    /\ hist' = [hist EXCEPT !.ops = @ + 1,
                            !.copied = IF Watching THEN @ \cup {path} ELSE @,
                            !.unreported = IF Watching THEN @ \cup {path}
                                           ELSE @]
    /\ ManagerUnchanged
    /\ LoopUnchanged

\* A file of the directory is written again.
FsModify(path) ==
    /\ variant # "off"
    /\ hist.ops < MaxFsOps
    /\ path \in dir
    /\ raw_rx' = notify("Modify", path)
    /\ hist' = [hist EXCEPT !.ops = @ + 1,
                            !.touched = IF Watching \/ variant = "polling"
                                        THEN @ \cup {path} ELSE @]
    /\ UNCHANGED dir
    /\ ManagerUnchanged
    /\ LoopUnchanged

\* A file is removed from the directory.
FsRemove(path) ==
    /\ variant # "off"
    /\ hist.ops < MaxFsOps
    /\ path \in dir
    /\ dir' = dir \ {path}
    /\ raw_rx' = notify("Remove", path)
    /\ hist' = [hist EXCEPT !.ops = @ + 1,
                            !.copied = @ \ {path},
                            !.unreported = @ \ {path},
                            !.removed[path] = @ + 1,
                            !.flashed = IF path \in hist.copied
                                           /\ hist.appeared[path] = 0
                                        THEN @ \cup {path} ELSE @]
    /\ ManagerUnchanged
    /\ LoopUnchanged

\* 100 ms pass: every pending debounce entry is 100 ms older, and a
\* recv_timeout that found no event reaches its timeout.
Elapse ==
    /\ variant # "off"
    /\ debounce_map' =
          [p \in DOMAIN debounce_map |->
              IF debounce_map[p] < 0 THEN -1
              ELSE IF debounce_map[p] + TickMs > debounce_ms THEN debounce_ms
              ELSE debounce_map[p] + TickMs]
    /\ waited' = (waited \/ (wpc = "recv" /\ raw_rx = <<>>))
    /\ UNCHANGED <<dir, variant, opts, wpc, seen, raw_rx, rx, stop_rx, ppc, cb,
                   hist>>
    /\ ManagerUnchanged

\* RecommendedWatcher::new and watcher.watch: on failure the background
\* worker sends an Error and returns, the blocking routine just returns.
LoopStart ==
    /\ wpc = "start"
    /\ \E ok \in BOOLEAN :
          IF ok
          THEN /\ wpc' = loop_head
               /\ rx' = rx
          ELSE /\ wpc' = "done"
               /\ rx' = IF variant = "background"
                        THEN Append(rx, WatchNotification("Error", {}, None))
                        ELSE rx
    /\ waited' = FALSE
    /\ UNCHANGED <<dir, variant, opts, seen, debounce_map, raw_rx, stop_rx, ppc,
                   cb, hist>>
    /\ ManagerUnchanged

\* The owner of a background watcher sends one value on the stop channel.
SendStop ==
    /\ variant = "background"
    /\ wpc # "done"
    /\ stop_rx = 0
    /\ stop_rx' = 1
    /\ UNCHANGED <<dir, variant, opts, wpc, seen, debounce_map, waited, raw_rx,
                   rx, ppc, cb, hist>>
    /\ ManagerUnchanged

\* The history once the loop has handled the Remove event of a library.
removal_observed(h, path) ==
    [h EXCEPT !.removals[path] = @ + 1,
              !.dropped = IF debounce_map[path] >= 0 THEN @ \cup {path} ELSE @]

\* The worker's loop without the check of the stop channel.
LoopTopIgnoringStop ==
    /\ wpc = "top"
    /\ wpc' = "recv"
    /\ waited' = FALSE
    /\ UNCHANGED <<dir, variant, opts, seen, debounce_map, raw_rx, rx, stop_rx,
                   ppc, cb, hist>>
    /\ ManagerUnchanged

\* Top of the worker's loop: stop_rx.try_recv().
LoopTop ==
    /\ wpc = "top"
    /\ IF stop_rx > 0
       THEN stop_rx' = stop_rx - 1 /\ wpc' = "done"
       ELSE stop_rx' = stop_rx /\ wpc' = "recv"
    /\ waited' = FALSE
    /\ UNCHANGED <<dir, variant, opts, seen, debounce_map, raw_rx, rx, ppc, cb,
                   hist>>
    /\ ManagerUnchanged

\* An event taken from the raw channel whether or not the loop still runs.
ReceivedAfterReturn == raw_rx # <<>> /\ ~waited

\* recv_timeout returned an event.
Received == wpc = "recv" /\ raw_rx # <<>> /\ ~waited

\* A candidate test that does not consult seen.
candidate_ignoring_seen(path) == is_dynamic_library(path)

\* A Create or Modify event: a library path not in seen enters the debounce
\* map with the current time.  (An event of a file that is no library, and a
\* Remove event of one, leave the loop's state alone.)
candidate(path) == is_dynamic_library(path) /\ path \notin seen

LoopCandidate ==
    /\ Received
    /\ LET e == Head(raw_rx)
       IN  /\ e.kind \in {"Create", "Modify"} \/ ~is_dynamic_library(e.path)
           /\ debounce_map' =
                 IF e.kind \in {"Create", "Modify"} /\ candidate(e.path)
                 THEN [debounce_map EXCEPT ![e.path] = 0]
                 ELSE debounce_map
    /\ hist' = [hist EXCEPT !.dropped = @ \ {Head(raw_rx).path}]
    /\ raw_rx' = Tail(raw_rx)
    /\ wpc' = loop_head
    /\ waited' = FALSE
    /\ UNCHANGED <<dir, variant, opts, seen, rx, stop_rx, ppc, cb>>
    /\ ManagerUnchanged

\* The background worker calling unload_by_path itself on a Remove event.
LoopRemoveBackgroundUnloading ==
    /\ variant = "background"
    /\ Received
    /\ LET e == Head(raw_rx)
           us == unload_by_path(e.path)
       IN  /\ e.kind = "Remove"
           /\ is_dynamic_library(e.path)
           /\ insts' = us.st.insts
           /\ counter' = us.st.counter
           /\ libs' = us.libs
           /\ loaded_paths' = us.loaded_paths
           /\ rx' = Append(rx, WatchNotification("Unloaded", {e.path}, us.res))
           /\ hist' = removal_observed(hist, e.path)
    /\ raw_rx' = Tail(raw_rx)
    /\ wpc' = loop_head
    /\ waited' = FALSE
    /\ ret' = Unit
    /\ UNCHANGED <<dir, variant, opts, seen, debounce_map, stop_rx, ppc, cb>>

\* A Remove event of a library, background variant: report it.
LoopRemoveBackground ==
    /\ variant = "background"
    /\ Received
    /\ LET e == Head(raw_rx)
       IN  /\ e.kind = "Remove"
           /\ is_dynamic_library(e.path)
           /\ rx' = Append(rx, WatchNotification("Unloaded", {e.path}, None))
           /\ hist' = removal_observed(hist, e.path)
    /\ raw_rx' = Tail(raw_rx)
    /\ wpc' = loop_head
    /\ waited' = FALSE
    /\ UNCHANGED <<dir, variant, opts, seen, debounce_map, stop_rx, ppc, cb>>
    /\ ManagerUnchanged

\* An event without handles, of the kind emit_proxies selects.
empty_event(paths) ==
    Callback(IF opts.emit_proxies THEN "Proxies" ELSE "Handles", <<>>, paths, None)

\* A Remove event of a library, blocking variant: unload_by_path if
\* auto_unload, then the callback with an empty event and the path.
LoopRemoveBlocking ==
    /\ variant = "blocking"
    /\ Received
    /\ LET e == Head(raw_rx)
           us == unload_by_path(e.path)
       IN  /\ e.kind = "Remove"
           /\ is_dynamic_library(e.path)
           /\ IF opts.auto_unload
              THEN /\ insts' = us.st.insts
                   /\ counter' = us.st.counter
                   /\ libs' = us.libs
                   /\ loaded_paths' = us.loaded_paths
              ELSE UNCHANGED <<insts, counter, libs, loaded_paths>>
           /\ cb' = empty_event({e.path})
           /\ hist' = removal_observed(hist, e.path)
    /\ raw_rx' = Tail(raw_rx)
    /\ \E cont \in BOOLEAN : wpc' = IF cont THEN loop_head ELSE "done"
    /\ waited' = FALSE
    /\ ret' = Unit
    /\ UNCHANGED <<dir, variant, opts, seen, debounce_map, rx, stop_rx, ppc>>

\* Every pending entry, whatever its age.
ready_paths_any_age == {p \in DOMAIN debounce_map : debounce_map[p] >= 0}

\* The debounce entries at least debounce_ms old, which a timeout promotes.
ready_paths ==
    {p \in DOMAIN debounce_map :
        debounce_map[p] >= 0 /\ debounce_map[p] >= debounce_ms}

\* A retain that keeps every entry.
retain_keeping_ready == debounce_map

\* debounce_map.retain: the promoted entries leave the map.
retain ==
    [p \in DOMAIN debounce_map |->
        IF p \in ready_paths THEN -1 ELSE debounce_map[p]]

promoted(h, ready) ==
    [h EXCEPT !.appeared = [p \in DOMAIN @ |-> IF p \in ready THEN @[p] + 1 ELSE @[p]],
              !.unreported = @ \ ready]

\* The results load_plugins can have on the directory as it is now.
load_outcomes ==
    {load_plugins(entries) : entries \in Listings(dir)}
        \cup {LoadSt(St(insts, counter), libs, loaded_paths, <<>>, "Io")}

\* handles.iter().filter_map(|h| h.as_greeter()).collect(): one proxy per
\* handle; the handles are dropped when the match arm ends.
RECURSIVE as_greeters(_, _)
as_greeters(st, handles) ==
    IF handles = <<>> THEN st
    ELSE as_greeters(St([st.insts EXCEPT ![Head(handles).inner].proxies = @ + 1],
                        st.counter),
                     Tail(handles))

\* The event made of the handles of a successful load_plugins, and the
\* manager's state once it is made.
loaded_event(ls, paths) ==
    IF opts.emit_proxies
    THEN [st |-> drop_handles(as_greeters(ls.st, ls.handles), ls.handles),
          cb |-> Callback("Proxies", ls.handles, paths, None)]
    ELSE [st |-> ls.st, cb |-> Callback("Handles", ls.handles, paths, None)]

inners(handles) == {handles[i].inner : i \in DOMAIN handles}

\* recv_timeout timed out, background variant: promote and send Paths.
LoopTimeoutBackground ==
    /\ variant = "background"
    /\ wpc = "recv"
    /\ waited
    /\ debounce_map' = retain
    /\ seen' = seen \cup ready_paths
    /\ rx' = IF ready_paths # {}
             THEN Append(rx, WatchNotification("Paths", ready_paths, None))
             ELSE rx
    /\ hist' = promoted(hist, ready_paths)
    /\ wpc' = loop_head
    /\ waited' = FALSE
    /\ UNCHANGED <<dir, variant, opts, raw_rx, stop_rx, ppc, cb>>
    /\ ManagerUnchanged

\* recv_timeout timed out, blocking variant: promote, load_plugins if
\* auto_load, and the callback with the handles (none on error) and the
\* ready paths.
LoopTimeoutBlocking ==
    /\ variant = "blocking"
    /\ wpc = "recv"
    /\ waited
    /\ debounce_map' = retain
    /\ seen' = seen \cup ready_paths
    /\ waited' = FALSE
    /\ ret' = Unit
    /\ UNCHANGED <<dir, variant, opts, raw_rx, rx, stop_rx, ppc>>
    /\ IF ready_paths = {}
       THEN /\ wpc' = loop_head
            /\ UNCHANGED <<insts, counter, libs, loaded_paths, cb, hist>>
       ELSE /\ \E cont \in BOOLEAN : wpc' = IF cont THEN loop_head ELSE "done"
            /\ IF opts.auto_load
               THEN \E ls \in load_outcomes :
                      LET ev == loaded_event(ls, ready_paths)
                      IN  /\ insts' = IF ls.err = "" THEN ev.st.insts ELSE ls.st.insts
                          /\ counter' = IF ls.err = "" THEN ev.st.counter
                                        ELSE ls.st.counter
                          /\ libs' = ls.libs
                          /\ loaded_paths' = ls.loaded_paths
                          /\ cb' = IF ls.err = "" THEN ev.cb
                                   ELSE empty_event(ready_paths)
                          /\ hist' = [promoted(hist, ready_paths) EXCEPT
                                        !.delivered = @ \cup inners(ls.handles),
                                        !.io = @ \/ ls.err = "Io"]
               ELSE /\ cb' = empty_event(ready_paths)
                    /\ hist' = promoted(hist, ready_paths)
                    /\ UNCHANGED <<insts, counter, libs, loaded_paths>>

\* process_watch_notifications_blocking: rx.recv() returned a notification.
\* Paths: load_plugins if auto_load, the callback with Event(handles, paths),
\* with Error if load_plugins failed.
ProcessPaths ==
    /\ ppc = "recv"
    /\ rx # <<>>
    /\ Head(rx).kind = "Paths"
    /\ rx' = Tail(rx)
    /\ \E cont \in BOOLEAN : ppc' = IF cont THEN "recv" ELSE "done"
    /\ ret' = Unit
    /\ UNCHANGED <<dir, variant, opts, wpc, seen, debounce_map, waited, raw_rx,
                   stop_rx>>
    /\ IF opts.auto_load
       THEN \E ls \in load_outcomes :
              LET ev == loaded_event(ls, Head(rx).paths)
              IN  /\ insts' = IF ls.err = "" THEN ev.st.insts ELSE ls.st.insts
                  /\ counter' = IF ls.err = "" THEN ev.st.counter ELSE ls.st.counter
                  /\ libs' = ls.libs
                  /\ loaded_paths' = ls.loaded_paths
                  /\ cb' = IF ls.err = "" THEN ev.cb
                           ELSE Callback("Error", <<>>, {}, None)
                  /\ hist' = [hist EXCEPT
                                !.delivered = @ \cup inners(ls.handles),
                                !.io = @ \/ ls.err = "Io"]
       ELSE /\ cb' = empty_event(Head(rx).paths)
            /\ UNCHANGED <<insts, counter, libs, loaded_paths, hist>>

\* Unloaded handled with unload_by_path whatever the options say.
ProcessUnloadedAlways ==
    /\ ppc = "recv"
    /\ rx # <<>>
    /\ Head(rx).kind = "Unloaded"
    /\ rx' = Tail(rx)
    /\ \E cont \in BOOLEAN : ppc' = IF cont THEN "recv" ELSE "done"
    /\ ret' = Unit
    /\ UNCHANGED <<dir, variant, opts, wpc, seen, debounce_map, waited, raw_rx,
                   stop_rx, hist>>
    /\ \E path \in Head(rx).paths :
          LET us == unload_by_path(path)
          IN  /\ insts' = us.st.insts
              /\ counter' = us.st.counter
              /\ libs' = us.libs
              /\ loaded_paths' = us.loaded_paths
              /\ cb' = Callback("Unloaded", <<>>, {path}, us.res)

\* Unloaded: unload_by_path if auto_unload, the callback with Unloaded and
\* the counter it returned (None without auto_unload).
ProcessUnloaded ==
    /\ ppc = "recv"
    /\ rx # <<>>
    /\ Head(rx).kind = "Unloaded"
    /\ rx' = Tail(rx)
    /\ \E cont \in BOOLEAN : ppc' = IF cont THEN "recv" ELSE "done"
    /\ ret' = Unit
    /\ UNCHANGED <<dir, variant, opts, wpc, seen, debounce_map, waited, raw_rx,
                   stop_rx, hist>>
    /\ \E path \in Head(rx).paths :
          LET us == unload_by_path(path)
          IN  IF opts.auto_unload
              THEN /\ insts' = us.st.insts
                   /\ counter' = us.st.counter
                   /\ libs' = us.libs
                   /\ loaded_paths' = us.loaded_paths
                   /\ cb' = Callback("Unloaded", <<>>, {path}, us.res)
              ELSE /\ cb' = Callback("Unloaded", <<>>, {path}, None)
                   /\ UNCHANGED <<insts, counter, libs, loaded_paths>>

\* Error: handed to the callback.
ProcessError ==
    /\ ppc = "recv"
    /\ rx # <<>>
    /\ Head(rx).kind = "Error"
    /\ rx' = Tail(rx)
    /\ \E cont \in BOOLEAN : ppc' = IF cont THEN "recv" ELSE "done"
    /\ cb' = Callback("Error", <<>>, {}, None)
    /\ UNCHANGED <<dir, variant, opts, wpc, seen, debounce_map, waited, raw_rx,
                   stop_rx, hist>>
    /\ ManagerUnchanged

\* rx.recv() fails once the worker has exited and nothing is left to receive.
ProcessDisconnected ==
    /\ ppc = "recv"
    /\ rx = <<>>
    /\ variant = "background"
    /\ wpc = "done"
    /\ ppc' = "done"
    /\ UNCHANGED <<dir, variant, opts, wpc, seen, debounce_map, waited, raw_rx,
                   rx, stop_rx, cb, hist>>
    /\ ManagerUnchanged

\* WatchOptions::default() but for debounce_ms.
DefaultOptions == WatchOptions(TRUE, FALSE, FALSE)

\* watch_plugins: one iteration of the polling thread. Every library that
\* read_dir lists and seen does not hold enters seen and is sent as
\* NewPlugin, in the order of the listing; a failed read_dir sends nothing.
PollScan ==
    /\ variant = "polling"
    /\ wpc = "poll"
    /\ \E readable \in BOOLEAN :
         LET fresh == IF readable
                      THEN {p \in dir : is_dynamic_library(p) /\ p \notin seen}
                      ELSE {}
         IN  /\ seen' = seen \cup fresh
             /\ \E order \in Listings(fresh) :
                   rx' = rx \o [i \in DOMAIN order |->
                                  WatchNotification("NewPlugin", {order[i]}, None)]
             /\ hist' = promoted(hist, fresh)
    /\ UNCHANGED <<dir, variant, opts, wpc, debounce_map, waited, raw_rx,
                   stop_rx, ppc, cb>>
    /\ ManagerUnchanged

\* A watcher has just been started on a fresh manager, over any content of
\* the directory: seen holds the libraries listed, nothing is pending.
\* watch_plugins takes no options and has its polling thread running.
WatchInit ==
    /\ dir \in SUBSET WatchPaths
    /\ libs = <<>>
    /\ loaded_paths = {}
    /\ insts = <<>>
    /\ counter = [p \in Paths |-> 0]
    /\ ret = Unit
    /\ variant \in {"blocking", "background", "polling"}
    /\ opts \in IF variant = "polling" THEN {DefaultOptions}
                ELSE {WatchOptions(al, au, ep) : al, au, ep \in BOOLEAN}
    /\ wpc = IF variant = "polling" THEN "poll" ELSE "start"
    /\ seen = {p \in dir : is_dynamic_library(p)}
    /\ debounce_map = [p \in WatchPaths |-> -1]
    /\ waited = FALSE
    /\ raw_rx = <<>>
    /\ rx = <<>>
    /\ stop_rx = 0
    /\ ppc = IF variant = "background" THEN "recv" ELSE "done"
    /\ cb = NoCallback
    /\ hist = [appeared |-> [p \in WatchPaths |-> 0],
               removals |-> [p \in WatchPaths |-> 0],
               delivered |-> {}, copied |-> {}, flashed |-> {},
               removed |-> [p \in WatchPaths |-> 0], existing |-> seen,
               touched |-> {}, unreported |-> {}, dropped |-> {}, io |-> FALSE,
               ops |-> 0]

\* The steps of the worker thread (the whole loop in the blocking variant).
WorkerStep ==
    \/ LoopStart
    \/ LoopTop
    \/ LoopCandidate
    \/ LoopRemoveBackground
    \/ LoopRemoveBlocking
    \/ LoopTimeoutBackground
    \/ LoopTimeoutBlocking

\* The steps of process_watch_notifications_blocking.
ProcessStep ==
    \/ ProcessPaths
    \/ ProcessUnloaded
    \/ ProcessError
    \/ ProcessDisconnected

WatchNext ==
    \/ \E path \in WatchPaths : FsCreate(path)
    \/ \E path \in WatchPaths : FsModify(path)
    \/ \E path \in WatchPaths : FsRemove(path)
    \/ Elapse
    \/ SendStop
    \/ LoopStart
    \/ LoopTop
    \/ LoopCandidate
    \/ LoopRemoveBackground
    \/ LoopRemoveBlocking
    \/ LoopTimeoutBackground
    \/ LoopTimeoutBlocking
    \/ ProcessPaths
    \/ ProcessUnloaded
    \/ ProcessError
    \/ ProcessDisconnected
    \/ PollScan

SpecWatch == WatchInit /\ [][WatchNext]_vars

\* A watcher with the default options, started on a directory that holds
\* at most a file that does not open as a library.
WatchInitDefault ==
    /\ WatchInit
    /\ opts = DefaultOptions
    /\ dir \subseteq {PluginBad}

\* The states in which LoopTimeoutBlocking can take a step: its guard; every
\* step of it resets waited.
LoopTimeoutBlockingEnabled ==
    /\ variant = "blocking"
    /\ wpc = "recv"
    /\ waited

\* The states in which ProcessPaths can take a step: its guard; every step
\* of it takes the head off rx.
ProcessPathsEnabled ==
    /\ ppc = "recv"
    /\ rx # <<>>
    /\ Head(rx).kind = "Paths"

\* Both threads keep running and time keeps passing: weak fairness of the
\* clock, of the worker's steps and of the processing thread's steps. For
\* the two steps that call load_plugins the weak fairness condition is
\* written out, with the guard of the step for its enabling condition.
SpecWatchFair ==
    /\ WatchInitDefault
    /\ [][WatchNext]_vars
    /\ WF_vars(Elapse)
    /\ WF_vars(LoopStart \/ LoopTop \/ LoopCandidate \/ LoopRemoveBackground
                   \/ LoopRemoveBlocking \/ LoopTimeoutBackground)
    /\ ([]<>(~LoopTimeoutBlockingEnabled) \/ []<><<LoopTimeoutBlocking>>_vars)
    /\ WF_vars(ProcessUnloaded \/ ProcessError \/ ProcessDisconnected)
    /\ ([]<>(~ProcessPathsEnabled) \/ []<><<ProcessPaths>>_vars)

----------------------------------------------------------------------------
\* C17: a step of the background worker leaves libs, loaded_paths and the
\* loaded libraries unchanged and sends at most one notification, a Paths,
\* an Unloaded with counter None or an Error; in the background variant the
\* manager's state changes only in steps of
\* process_watch_notifications_blocking.
C17_WorkerNeverTouchesManager ==
    [][variant = "background"
         => /\ WorkerStep
               => /\ UNCHANGED <<libs, loaded_paths, insts, counter>>
                  /\ \/ rx' = rx
                     \/ \E n \in {WatchNotification(k, ps, None) :
                                     k \in {"Paths", "Unloaded", "Error"},
                                     ps \in SUBSET WatchPaths} :
                           rx' = Append(rx, n)
            /\ (<<libs, loaded_paths, insts, counter>>'
                   # <<libs, loaded_paths, insts, counter>>)
                  => ProcessStep]_vars

\* The worker has reported the removal of a library that is loaded, and
\* the manager still holds it.
C17_Witness ==
    /\ variant = "background"
    /\ opts.auto_unload
    /\ rx # <<>>
    /\ Head(rx).kind = "Unloaded"
    /\ \E p \in Head(rx).paths : p \in loaded_paths

Delivered(path) == \E i \in hist.delivered : insts[i].path = path

\* The watcher no longer calls the callback: the loop has ended, or the
\* callback of the background pipeline has returned false.
Stopped == wpc = "done" \/ (variant = "background" /\ ppc = "done")

\* C19: with auto_load, a valid plugin library copied into the directory
\* while the watcher watches it is eventually delivered to the callback in
\* an event with handles, unless the file is removed again, the watcher
\* stops or read_dir fails.
C19_CopiedPluginEventuallyDelivered ==
    \A path \in {PluginA, PluginMulti} :
        (opts.auto_load /\ path \in hist.copied)
            ~> (Delivered(path) \/ path \notin hist.copied \/ Stopped \/ hist.io)


\* C20: a path copied into the directory while the watcher watches it and
\* removed before the watcher has announced it (hist.flashed) is announced
\* at most once and reported removed at most once for each time it was
\* removed: one notification pair for a file created and removed once.
C20_AtMostOneNotificationPair ==
    \A path \in hist.flashed :
        /\ hist.appeared[path] <= 1
        /\ hist.removals[path] <= hist.removed[path]

\* A library was copied and removed within the debounce window, and the
\* watcher has reported its removal and then announced the path.
C20_Witness ==
    \E path \in hist.flashed :
        /\ is_dynamic_library(path)
        /\ hist.removed[path] = 1
        /\ hist.removals[path] = 1
        /\ hist.appeared[path] = 1
        /\ path \notin dir


\* The paths a notification in the channel announces as new.
announced_in(channel) ==
    UNION {channel[i].paths : i \in {j \in DOMAIN channel :
                                       channel[j].kind \in {"Paths", "NewPlugin"}}}

----------------------------------------------------------------------------
\* The loader on its own: load_plugins and unload_by_path over a directory
\* that also holds libraries whose plugin_register_all returns an empty
\* array or null.

LoadPaths == {PluginMulti, PluginSingle, PluginEmpty, PluginNull, PluginBad}

LoadInit ==
    /\ dir \in {d \in SUBSET LoadPaths : Cardinality(d) <= MaxFiles}
    /\ libs = <<>>
    /\ loaded_paths = {}
    /\ insts = <<>>
    /\ counter = [p \in Paths \cup LoadPaths |-> 0]
    /\ ret = Unit
    /\ WatchOff

LoadNext ==
    \/ LoadPlugins /\ UNCHANGED wvars
    \/ \E path \in LoadPaths : UnloadByPath(path) /\ UNCHANGED wvars
    \/ \E id \in DOMAIN insts : DropHandle(id) /\ UNCHANGED wvars
    \/ \E path \in LoadPaths : CreateFile(path) /\ UNCHANGED wvars
    \/ \E path \in LoadPaths : RemoveFile(path) /\ UNCHANGED wvars

SpecLoad == LoadInit /\ [][LoadNext]_vars

\* The handles a call returned that share LoadedLib id.
handles_of(handles, id) == {i \in DOMAIN handles : handles[i].inner = id}

\* C22: a successful load_plugins returns, for each library it loaded, one
\* handle per registration of its array, with the indices 0..count-1 each
\* once, and every handle it returns has an index below the count of its
\* LoadedLib.
C22_OneHandlePerRegistration ==
    [][(LoadPlugins /\ ret'.tag = "Ok")
         => /\ \A id \in (DOMAIN insts') \ (DOMAIN insts) :
                 /\ Cardinality(handles_of(ret'.handles, id)) = insts'[id].count
                 /\ {ret'.handles[i].index : i \in handles_of(ret'.handles, id)}
                       = 0..(insts'[id].count - 1)
            /\ \A i \in DOMAIN ret'.handles :
                 /\ ret'.handles[i].inner \in (DOMAIN insts') \ (DOMAIN insts)
                 /\ ret'.handles[i].index >= 0
                 /\ ret'.handles[i].index < insts'[ret'.handles[i].inner].count]_vars

\* load_plugins has just returned the two handles of the two-registration
\* library and the handle of a single-registration library.
C22_Witness ==
    /\ ret.op = "load_plugins"
    /\ ret.tag = "Ok"
    /\ Len(ret.handles) = 3
    /\ \E i \in DOMAIN ret.handles : insts[ret.handles[i].inner].count = 2


----------------------------------------------------------------------------
\* PluginId.  PluginHandle::new computes the id of a handle from its index
\* and the address of the RegistrationArray of its LoadedLib.

ArrayAlign == 8        \* align_of::<RegistrationArray>(): usize and pointers
ArraySize == 24        \* size_of::<RegistrationArray>(): count and two pointers
MaxSlot == 7           \* highest array address, in units of ArrayAlign
MaxCount == 17         \* registrations of an array

\* Bitwise exclusive or of two naturals (u128 ^ u128; no bit is lost at
\* these sizes).
RECURSIVE xor(_, _)
xor(a, b) ==
    IF a = 0 THEN b
    ELSE IF b = 0 THEN a
    ELSE (((a % 2) + (b % 2)) % 2) + (2 * xor(a \div 2, b \div 2))

\* PluginId((index as u128) ^ (inner.arr_ptr as usize as u128))
PluginId(index, arr_ptr) == xor(index, arr_ptr)

ArrayAddresses == {ArrayAlign * k : k \in 1..MaxSlot}

\* Two arrays that are alive at once are the same array or do not overlap.
live_together(a1, a2) ==
    a1 = a2 \/ a1 + ArraySize <= a2 \/ a2 + ArraySize <= a1

\* A registration of a live array: the array and the index in it.
Registration(arr_ptr, index) == [arr_ptr |-> arr_ptr, index |-> index]

\* A handle of this registration as PluginHandle::new makes it.
IdHandle(reg) ==
    [arr_ptr |-> reg.arr_ptr, index |-> reg.index,
     id |-> PluginId(reg.index, reg.arr_ptr)]

\* Two registrations of live arrays, for which handles are to be made.
IdInit ==
    /\ dir = {}
    /\ libs = <<>>
    /\ loaded_paths = {}
    /\ insts = <<>>
    /\ counter = [p \in Paths |-> 0]
    /\ WatchOff
    /\ \E a1, a2 \in ArrayAddresses :
         /\ live_together(a1, a2)
         /\ \E i1, i2 \in 0..(MaxCount - 1) :
              ret = Result("registrations", 0, "", 0,
                           <<Registration(a1, i1), Registration(a2, i2)>>)

\* PluginHandle::new for each of the two registrations.
NewHandles ==
    /\ ret.op = "registrations"
    /\ ret' = Result("PluginHandle::new", 0, "Ok", 0,
                     <<IdHandle(ret.handles[1]), IdHandle(ret.handles[2])>>)
    /\ UNCHANGED <<dir, libs, loaded_paths, insts, counter, wvars>>

IdNext == NewHandles

SpecId == IdInit /\ [][IdNext]_vars

\* C23: two live handles have equal ids exactly if they are handles of the
\* same registration, the same array and the same index.
C23_IdsEqualIffSameRegistration ==
    ret.op = "PluginHandle::new"
        => LET h1 == ret.handles[1]
               h2 == ret.handles[2]
           IN  (h1.id = h2.id) <=> (h1.arr_ptr = h2.arr_ptr /\ h1.index = h2.index)


\* The libraries whose plugin_register_all yields nothing and whose
\* plugin_register returns a registration.
EmptyAllWithSingle ==
    {path \in LoadPaths :
        /\ PluginOf(path).opens
        /\ PluginOf(path).register_all
        /\ PluginOf(path).all_count <= 0
        /\ PluginOf(path).register_single}

\* C24: a load_plugins call that reads the directory and opens every
\* library in it gives each library whose plugin_register_all yields nothing
\* (null, or an array of count 0) and whose plugin_register returns a
\* registration a host-owned array of one registration and one handle.
C24_EmptyAllFallsBackToSingle ==
    [][(LoadPlugins /\ ret'.tag \in {"Ok", "NoRegistrations"})
         => \A path \in (EmptyAllWithSingle \cap dir) \ loaded_paths :
               \E id \in (DOMAIN insts') \ (DOMAIN insts) :
                   /\ insts'[id].path = path
                   /\ insts'[id].host_owned
                   /\ insts'[id].count = 1
                   /\ Cardinality(handles_of(ret'.handles, id)) = 1]_vars


\* The paths of the LoadedLibs a returned vector has a handle of.
paths_of(handles) == {insts'[handles[i].inner].path : i \in DOMAIN handles}

\* C25: a load_plugins call adds to loaded_paths, and to libs, only
\* libraries of which it returns a handle.
C25_RecordedOnlyWithHandle ==
    [][LoadPlugins
         => /\ loaded_paths' \ loaded_paths \subseteq paths_of(ret'.handles)
            /\ \A i \in DOMAIN libs' :
                  (libs'[i] \notin DOMAIN insts)
                      => insts'[libs'[i]].path \in paths_of(ret'.handles)]_vars


\* C26: a load_plugins call that returns Err leaves libs and loaded_paths
\* as they were before the call.
C26_ErrLeavesManagerUnchanged ==
    [][(LoadPlugins /\ ret'.tag \in {"Io", "Lib", "NoRegistrations"})
         => UNCHANGED <<libs, loaded_paths>>]_vars


\* C27: after unload_by_path(path) the path is not in loaded_paths.
C27_UnloadForgetsPath ==
    [][\A path \in LoadPaths :
          UnloadByPath(path) => path \notin loaded_paths']_vars

\* C28: after unload_by_path(path) every LoadedLib of that path that still
\* has an owner has its closed latch set.
C28_UnloadMarksEveryInstance ==
    [][\A path \in LoadPaths :
          UnloadByPath(path)
              => \A id \in DOMAIN insts' :
                    (insts'[id].path = path /\ strong_count(insts'[id]) > 0)
                        => insts'[id].closed]_vars


\* The paths a step promotes to ready.
promoted_by_step == {p \in WatchPaths : hist'.appeared[p] > hist.appeared[p]}

\* The loop receives a Create or Modify event of the path.
CandidateEvent(path) ==
    /\ LoopCandidate
    /\ Head(raw_rx).kind \in {"Create", "Modify"}
    /\ Head(raw_rx).path = path

\* A step promotes the path only if it is a dynamic library, is not in seen
\* and its debounce entry is at least debounce_ms old.
promoted_after_window(path) ==
    (path \in promoted_by_step) =>
        (is_dynamic_library(path) /\ path \notin seen
            /\ debounce_map[path] >= debounce_ms)

\* A Create or Modify event of a candidate path starts its window at 0.
event_restarts_window(path) ==
    (CandidateEvent(path) /\ candidate(path)) => (debounce_map'[path] = 0)

\* The age of an entry grows only with the time that passes, and an entry
\* appears only with an event of its path.
age_grows_with_time(path) ==
    (debounce_map'[path] > debounce_map[path]) =>
        ((CandidateEvent(path) /\ debounce_map[path] < 0)
            \/ (Elapse /\ debounce_map[path] >= 0
                    /\ debounce_map'[path] <= debounce_map[path] + TickMs))

\* C29: a step of the notify loops promotes a path only if it is a dynamic
\* library, is not in seen and its debounce entry is at least debounce_ms
\* old; the age of an entry starts at 0 with a Create or Modify event of the
\* path, starts again at 0 with every further one, and grows only with the
\* time that passes.
C29_PromotedOnlyAfterQuietWindow ==
    [][(variant \in {"blocking", "background"}) =>
          (\A path \in WatchPaths :
              promoted_after_window(path) /\ event_restarts_window(path)
                  /\ age_grows_with_time(path))]_vars

\* A library copied while the watcher watched was modified afterwards and
\* has been promoted, once.
C29_Witness ==
    \E path \in hist.copied :
        /\ variant \in {"blocking", "background"}
        /\ path \in hist.touched
        /\ hist.appeared[path] = 1
        /\ debounce_map[path] < 0


----------------------------------------------------------------------------
\* A watched directory in which a file that is no library keeps being
\* written: its Modify events never end.

MaxQueue == 1          \* events waiting in the raw channel when one more is sent

\* One more Modify event of a file that is being written.
FsKeepWriting(path) ==
    /\ Watching
    /\ path \in dir
    /\ ~is_dynamic_library(path)
    /\ Len(raw_rx) < MaxQueue
    /\ raw_rx' = notify("Modify", path)
    /\ UNCHANGED <<dir, hist>>
    /\ ManagerUnchanged
    /\ LoopUnchanged

\* A watcher with the default options on a directory that holds at most
\* the file being written.
WatchInitBusy ==
    /\ WatchInit
    /\ opts = DefaultOptions
    /\ dir \subseteq {Notes}

WatchBusyNext ==
    \/ WatchNext
    \/ \E path \in WatchPaths : FsKeepWriting(path)

\* The threads keep running and time keeps passing, as in SpecWatchFair;
\* the writer of the file is under no obligation.
SpecWatchBusy ==
    /\ WatchInitBusy
    /\ [][WatchBusyNext]_vars
    /\ WF_vars(Elapse)
    /\ WF_vars(LoopStart \/ LoopTop \/ LoopCandidate \/ LoopRemoveBackground
                   \/ LoopRemoveBlocking \/ LoopTimeoutBackground)
    /\ ([]<>(~LoopTimeoutBlockingEnabled) \/ []<><<LoopTimeoutBlocking>>_vars)
    /\ WF_vars(ProcessUnloaded \/ ProcessError \/ ProcessDisconnected)
    /\ ([]<>(~ProcessPathsEnabled) \/ []<><<ProcessPaths>>_vars)

\* C30: a debounce entry that is debounce_ms old is eventually promoted
\* (it leaves the map for a ready set), unless the loop ends, also while
\* events of other paths keep arriving.
C30_PendingEventuallyPromoted ==
    \A path \in WatchPaths :
        (debounce_map[path] >= debounce_ms) ~> (debounce_map[path] < 0 \/ Stopped)

----------------------------------------------------------------------------
\* The callback's continue/stop flag.

\* The blocking routine of the variant has returned.
routine_returned ==
    \/ variant = "blocking" /\ wpc = "done"
    \/ variant = "background" /\ ppc = "done"

\* The routine returned because the callback returned false: the blocking
\* watcher returns after a callback in no other way, and
\* process_watch_notifications_blocking otherwise returns only once the
\* worker has exited and the channel is empty.
callback_refused ==
    \/ variant = "blocking" /\ wpc = "done" /\ cb # NoCallback
    \/ variant = "background" /\ ppc = "done" /\ cb # NoCallback
          /\ ~(wpc = "done" /\ rx = <<>>)

\* C31: once watch_and_load_blocking or process_watch_notifications_blocking
\* has returned, as it does when the callback returns false, no step invokes
\* the callback again or changes libs, loaded_paths or the loaded libraries,
\* and the routine stays returned.
C31_NothingAfterCallbackRefuses ==
    [][routine_returned
         => /\ cb' = cb
            /\ libs' = libs
            /\ loaded_paths' = loaded_paths
            /\ insts' = insts
            /\ counter' = counter
            /\ routine_returned']_vars

\* The callback returned false while an event or a notification was still
\* waiting to be handled.
C31_Witness ==
    /\ callback_refused
    /\ \/ variant = "blocking" /\ raw_rx # <<>>
       \/ variant = "background" /\ rx # <<>>

----------------------------------------------------------------------------
\* The watch options.

\* The manager's libraries and bookkeeping are as before the step.
manager_untouched ==
    /\ libs' = libs
    /\ loaded_paths' = loaded_paths
    /\ insts' = insts
    /\ counter' = counter

\* A step that handles a ready set (blocking variant) or a Paths
\* notification (background variant), and the paths it handles.
PathsStep ==
    \/ LoopTimeoutBlocking /\ ready_paths # {}
    \/ ProcessPaths

paths_handled == IF variant = "blocking" THEN ready_paths ELSE Head(rx).paths

\* A step that handles the removal of a library, and the path removed.
RemovalStep == LoopRemoveBlocking \/ ProcessUnloaded

\* Without auto_load the step calls the callback with no handles and the
\* paths, and leaves the manager alone.
gated_load ==
    (~opts.auto_load /\ PathsStep)
        => /\ manager_untouched
           /\ cb' = empty_event(paths_handled)

\* Without auto_unload the step reports the removal with no counter and
\* leaves the manager alone.
gated_unload ==
    (~opts.auto_unload /\ RemovalStep)
        => /\ manager_untouched
           /\ cb'.counter = None
           /\ cb'.items = <<>>

\* C32: with auto_load = false the handling of a ready set or Paths
\* notification does not call load_plugins (the callback gets no handles and
\* the paths), with auto_unload = false the handling of a removal does not
\* call unload_by_path (it is reported with counter None); libs,
\* loaded_paths and the loaded libraries are unchanged by such a step.
C32_OptionsGateManagerCalls == [][gated_load /\ gated_unload]_vars

\* Without auto_unload, the removal of a loaded library has been reported
\* and the library is still recorded as loaded.
C32_Witness ==
    /\ ~opts.auto_unload
    /\ cb.kind \in {"Unloaded", "Handles", "Proxies"}
    /\ cb.items = <<>>
    /\ cb.counter = None
    /\ cb.paths # {}
    /\ cb.paths \subseteq loaded_paths
    /\ cb.paths \cap dir = {}


----------------------------------------------------------------------------
\* The outcome of a Paths notification.

\* process_watch_notifications_blocking handles a Paths notification with
\* auto_load while every library file of the directory is a valid plugin
\* and the directory can be read; the files of the notification are still
\* in place.
PathsOverValidPlugins ==
    /\ variant = "background"
    /\ opts.auto_load
    /\ PluginBad \notin dir
    /\ rx # <<>>
    /\ Head(rx).paths \subseteq dir
    /\ ProcessPaths
    /\ ~hist'.io

\* C33: in the background variant with auto_load, while every library file
\* of the directory is a valid plugin, the handling of a Paths notification
\* calls the callback with an Event, never with an Error.
C33_PathsYieldEvent ==
    [][PathsOverValidPlugins => cb'.kind \in {"Handles", "Proxies"}]_vars

----------------------------------------------------------------------------
\* C34: every handle or proxy of a watch event (WatchEvent::Handles or
\* ::Proxies) belongs to a library whose file is among the paths of the
\* same event.
C34_EventItemsMatchEventPaths ==
    cb.kind \in {"Handles", "Proxies"}
        => \A i \in DOMAIN cb.items : insts[cb.items[i].inner].path \in cb.paths

----------------------------------------------------------------------------
\* Hot swap: a plugin file is removed and copied again.

\* A watcher with the default options, started on a directory that holds
\* at most one valid plugin.
WatchInitSwap ==
    /\ WatchInit
    /\ opts = DefaultOptions
    /\ dir \subseteq {PluginA}

\* The watcher's threads keep running and time keeps passing, as in
\* SpecWatchFair.
SpecWatchSwap ==
    /\ WatchInitSwap
    /\ [][WatchNext]_vars
    /\ WF_vars(Elapse)
    /\ WF_vars(LoopStart \/ LoopTop \/ LoopCandidate \/ LoopRemoveBackground
                   \/ LoopRemoveBlocking \/ LoopTimeoutBackground)
    /\ ([]<>(~LoopTimeoutBlockingEnabled) \/ []<><<LoopTimeoutBlocking>>_vars)
    /\ WF_vars(ProcessUnloaded \/ ProcessError \/ ProcessDisconnected)
    /\ ([]<>(~ProcessPathsEnabled) \/ []<><<ProcessPaths>>_vars)

\* The watcher has observed the removal of path, and path was copied into
\* the directory again afterwards and has not been reported since.
recreated(path) ==
    /\ hist.removals[path] > 0
    /\ path \in hist.unreported

\* C35: a library file that was removed and then copied again to the same
\* path while the watcher runs is eventually reported again (in a ready set
\* or Paths notification), unless it is removed again or the watcher ends.
C35_RecreatedFileReportedAgain ==
    \A path \in WatchPaths :
        recreated(path) ~> (path \notin hist.unreported \/ Stopped)

----------------------------------------------------------------------------
\* C36: a path whose Remove event the loop handled while the path was
\* pending in the debounce map, with no Create or Modify event of it handled
\* since, is not promoted: no step puts it into a ready set or a Paths
\* notification.
C36_RemovedPendingPathNotPromoted ==
    [][promoted_by_step \cap hist.dropped = {}]_vars

----------------------------------------------------------------------------
\* A file copied while the watcher watched is still in place and has been
\* reported since it was copied.
reported_in_place(path) ==
    /\ path \in hist.copied
    /\ path \notin hist.unreported

\* C37: a path that was reported (in a ready set or Paths notification) and
\* whose file has stayed in place since is not reported again by any step,
\* whatever create or modify events arrive for it.
C37_ReportedOncePerFile ==
    [][\A path \in WatchPaths :
          reported_in_place(path) => path \notin promoted_by_step]_vars

\* A library was reported, is still in place, and a Modify event of it that
\* was sent after the report is waiting in the raw channel.
C37_Witness ==
    \E path \in WatchPaths :
        /\ reported_in_place(path)
        /\ hist.appeared[path] = 1
        /\ wpc = "recv"
        /\ raw_rx # <<>>
        /\ Head(raw_rx) = FsEvent("Modify", path)

----------------------------------------------------------------------------
\* The owner of a background watcher gives it up.

\* The stop channel is empty and its sender is gone: try_recv returns
\* Err(Disconnected).
StopDisconnected == -1

\* The owner drops the stop sender without sending.
DropStopSender ==
    /\ variant = "background"
    /\ stop_rx = 0
    /\ stop_rx' = StopDisconnected
    /\ UNCHANGED <<dir, variant, opts, wpc, seen, debounce_map, waited, raw_rx,
                   rx, ppc, cb, hist>>
    /\ ManagerUnchanged

\* The notification receiver is dropped: process_watch_notifications_blocking,
\* which took it by value, has returned.
ReceiverDropped == variant = "background" /\ ppc = "done"

WatchOwnerNext == WatchNext \/ DropStopSender

\* The threads keep running and time keeps passing, as in SpecWatchFair;
\* what the owner does is up to the owner.
SpecWatchOwner ==
    /\ WatchInitDefault
    /\ [][WatchOwnerNext]_vars
    /\ WF_vars(Elapse)
    /\ WF_vars(LoopStart \/ LoopTop \/ LoopCandidate \/ LoopRemoveBackground
                   \/ LoopRemoveBlocking \/ LoopTimeoutBackground)
    /\ ([]<>(~LoopTimeoutBlockingEnabled) \/ []<><<LoopTimeoutBlocking>>_vars)
    /\ WF_vars(ProcessUnloaded \/ ProcessError \/ ProcessDisconnected)
    /\ ([]<>(~ProcessPathsEnabled) \/ []<><<ProcessPaths>>_vars)

\* C38: once the notification receiver is dropped, or the stop sender is
\* dropped without a value sent, the worker thread of the background
\* watcher eventually exits.
C38_AbandonedWorkerExits ==
    (ReceiverDropped \/ (variant = "background" /\ stop_rx = StopDisconnected))
        ~> (wpc = "done")


----------------------------------------------------------------------------
\* plugin-host's own PluginManager (plugin-host/src/plugin_manager.rs), which
\* loads single files with load_greeter_from_lib and addresses them by the
\* index load_plugin returned.  In this specification libs holds its vector
\* `plugins` (entry ids into insts, which holds every PluginEntry made so
\* far) and loaded_paths the keys of its map `plugin_names`.

MaxHostLoads == 3      \* PluginEntry values ever created

HostPaths == {PluginMulti, PluginSingle, PluginEmpty, PluginBad}

plugins == libs

plugin_names == loaded_paths

\* A PluginEntry: the Library opened from path and the RegistrationArray,
\* plugin-owned with factories or host-owned without.  index is the value
\* load_plugin returned for it, loaded turns false when it is unloaded.
PluginEntry(path, count, factories, index) ==
    [path |-> path, count |-> count, factories |-> factories, index |-> index,
     loaded |-> TRUE, log |-> <<>>]

\* load_greeter_from_lib: the aggregated symbol first, then the single one.
load_greeter_from_lib(path) ==
    LET pl == PluginOf(path)
    IN  IF path \notin dir \/ ~pl.opens THEN [ok |-> FALSE, count |-> 0, factories |-> FALSE]
        ELSE IF pl.register_all
             THEN IF pl.all_count <= 0
                  THEN [ok |-> FALSE, count |-> 0, factories |-> FALSE]
                  ELSE [ok |-> TRUE, count |-> pl.all_count, factories |-> TRUE]
        ELSE IF pl.register_single
             THEN [ok |-> TRUE, count |-> 1, factories |-> FALSE]
        ELSE [ok |-> FALSE, count |-> 0, factories |-> FALSE]

\* unload_greeter(lib, arr_ptr): the unregister calls, the release of a
\* host-owned array, the drop of the Library.
unload_greeter(e, pl) ==
    LET unreg ==
            IF ~e.factories
            THEN IF pl.unregister_all THEN unregister_all(e.count)
                 ELSE IF pl.unregister_single THEN unregister_each_single(e.count)
                 ELSE <<>>
            ELSE IF pl.unregister_all THEN unregister_all(e.count)
                 ELSE unregister_each_factory(e.count)
        frees == IF ~e.factories
                 THEN <<Ev("host_free_regs", 0, 0), Ev("host_free_arr", 0, 0)>>
                 ELSE <<>>
    IN  unreg \o frees \o <<Ev("release", 0, 0)>>

\* Vec::swap_remove(index): the last element takes the place of the one
\* removed.
swap_remove(v, index) ==
    LET last == Len(v)
        rest == SubSeq(v, 1, last - 1)
    IN  IF index + 1 = last THEN rest ELSE [rest EXCEPT ![index + 1] = v[last]]

\* PluginManager::load_plugin(path).
HostLoadPlugin(path) ==
    /\ Len(insts) < MaxHostLoads
    /\ LET r == load_greeter_from_lib(path)
           index == Len(plugins)
           id == Len(insts) + 1
       IN  IF r.ok
           THEN /\ libs' = Append(plugins, id)
                /\ insts' = Append(insts, PluginEntry(path, r.count, r.factories, index))
                /\ loaded_paths' = plugin_names \cup {index}
                /\ ret' = Result("load_plugin", id, "Ok", index, <<>>)
           ELSE /\ ret' = Result("load_plugin", 0, "Err", 0, <<>>)
                /\ UNCHANGED <<libs, insts, loaded_paths>>
    /\ UNCHANGED <<dir, counter, wvars>>

\* PluginManager::call_greet(plugin_index, target): greet of the first
\* registration of plugins[plugin_index]; ret names the entry greeted.
HostCallGreet(plugin_index) ==
    /\ IF plugin_index >= Len(plugins)
       THEN ret' = Result("call_greet", 0, "Err", plugin_index, <<>>)
       ELSE ret' = Result("call_greet", plugins[plugin_index + 1], "Ok",
                          plugin_index, <<>>)
    /\ UNCHANGED <<dir, libs, loaded_paths, insts, counter, wvars>>

\* PluginManager::unload_plugin(plugin_index).
HostUnloadPlugin(plugin_index) ==
    IF plugin_index >= Len(plugins)
    THEN /\ ret' = Result("unload_plugin", 0, "Err", plugin_index, <<>>)
         /\ UNCHANGED <<dir, libs, loaded_paths, insts, counter, wvars>>
    ELSE LET id == plugins[plugin_index + 1]
             e == insts[id]
             log == unload_greeter(e, PluginOf(e.path))
             others == \E j \in DOMAIN insts :
                          j # id /\ insts[j].path = e.path /\ insts[j].loaded
         IN  /\ libs' = swap_remove(plugins, plugin_index)
             /\ insts' = [insts EXCEPT ![id].loaded = FALSE, ![id].log = log]
             /\ counter' = [counter EXCEPT ![e.path] =
                               IF others THEN @ + Len(Unmakers(log)) ELSE 0]
             /\ ret' = Result("unload_plugin", id, "Ok", plugin_index, <<>>)
             /\ UNCHANGED <<dir, loaded_paths, wvars>>

\* A fresh PluginManager and the plugin files in place.
HostInit ==
    /\ dir = HostPaths
    /\ libs = <<>>
    /\ loaded_paths = {}
    /\ insts = <<>>
    /\ counter = [p \in Paths \cup LoadPaths |-> 0]
    /\ ret = Unit
    /\ WatchOff

HostNext ==
    \/ \E path \in HostPaths : HostLoadPlugin(path)
    \/ \E plugin_index \in 0..MaxHostLoads : HostCallGreet(plugin_index)
    \/ \E plugin_index \in 0..MaxHostLoads : HostUnloadPlugin(plugin_index)

SpecHost == HostInit /\ [][HostNext]_vars

\* The index load_plugin returned for a loaded entry is in range and
\* addresses that entry.
index_identifies(id) ==
    /\ insts[id].index < Len(plugins)
    /\ plugins[insts[id].index + 1] = id

\* A call with an index out of range returns Err and changes nothing.
out_of_range_harmless ==
    (ret'.op \in {"call_greet", "unload_plugin"} /\ ret'.val >= Len(plugins))
        => /\ ret'.tag = "Err"
           /\ UNCHANGED <<libs, loaded_paths, insts, counter>>

\* After the step, every loaded entry is addressed by its index.
still_identified ==
    \A id \in DOMAIN insts' :
        insts'[id].loaded => index_identifies(id)'

\* C39: the index load_plugin returned for a plugin addresses that plugin,
\* for call_greet and unload_plugin, for as long as the plugin is loaded,
\* whatever other plugins are loaded or unloaded; a call with an index out
\* of range returns Err and changes nothing.
C39_IndexStable == [][still_identified /\ out_of_range_harmless]_vars

====
